---- MODULE Spec2Model ----
(***************************************************************************)
(* The crawl pipeline of Agentic-Truth-Weaver: main_crawler.main runs the  *)
(* Aaj Tak sitemap crawler and then The Hindu RSS crawler.  Each crawler   *)
(* loads its progress file, fetches its sitemap / feeds through            *)
(* retry_async, extracts the article URLs, and gathers one scrape task per *)
(* pending URL under an asyncio.Semaphore.  The process may be killed at   *)
(* any step and started again; the files on disk survive.                  *)
(***************************************************************************)
EXTENDS Integers, Sequences, FiniteSets, Bags, TLC

\* ------------------------------------------------------------- bounds
MaxConc == 2          \* largest concurrency / concurrency_pages tried
MaxRetries == 2       \* largest max_retries tried in a crawl run
MaxRuns == 2          \* runs of main_crawler.main (first run + restarts)
MaxAttempts == 4      \* largest max_retries tried on retry_async alone
MaxBase == 2          \* largest base_backoff tried on retry_async alone
MaxTasks == 3         \* most scrape tasks one source gets (longest URL list)
MaxEntries == 3       \* most URL-bearing parts of a document given to an extractor

\* ------------------------------------------------------------- names
AajSec == "aaj_tak"                  \* the one source of the Aaj Tak crawler
HinduSecs == {"india", "world"}      \* cfg.feeds of The Hindu crawler
AllSecs == {AajSec} \cup HinduSecs
URLs == {"u1", "u2"}                 \* article URLs (thehindu.com for feeds)
OffSite == "x1"                      \* a URL that is not on thehindu.com

\* ------------------------------------------------------------- helpers
Range(s) == {s[i] : i \in 1..Len(s)}

RECURSIVE Dedupe(_)
\* the seen/clean loop: keeps the first occurrence of every element
Dedupe(s) ==
    IF s = <<>> THEN <<>>
    ELSE LET front == Dedupe(SubSeq(s, 1, Len(s) - 1))
             x == s[Len(s)]
         IN IF x \in Range(front) THEN front ELSE Append(front, x)

RECURSIVE SelectTexts(_, _)
\* the texts of the entries of s whose kind is in kinds and whose text is
\* non-empty, in document order
SelectTexts(s, kinds) ==
    IF s = <<>> THEN <<>>
    ELSE LET e == Head(s)
             rest == SelectTexts(Tail(s), kinds)
         IN IF e.kind \in kinds /\ e.text # "" THEN <<e.text>> \o rest ELSE rest

RECURSIVE Pow2(_)
Pow2(k) == IF k <= 0 THEN 1 ELSE 2 * Pow2(k - 1)

\* ------------------------------------------------------------- documents
\* A fetched document: wf = it parses as XML (ET.fromstring does not raise),
\* long = it has at least 20 characters, entries = its URL-bearing parts in
\* document order.  An entry's kind says where the text sits:
\*   "ns_url_loc"  <url><loc> in the sitemap namespace, child of the root
\*   "url_loc"     <url><loc> without namespace, child of the root
\*   "loc"         another element whose tag ends with "loc"
\*   "item_link"   <item><link> of an RSS feed
\*   "text"        text that is no element of the tree (comment, other tag)
\* plain = the raw text holds it as a literal <loc>http...</loc>, the shape
\* the sitemap regex matches.
Entry(k, t, p) == [kind |-> k, text |-> t, plain |-> p]
LocKinds == {"ns_url_loc", "url_loc", "loc"}
AllKinds == LocKinds \cup {"item_link", "text"}
Doc(w, l, es) == [wf |-> w, long |-> l, entries |-> es]

RECURSIVE PlainTexts(_)
PlainTexts(s) ==
    IF s = <<>> THEN <<>>
    ELSE LET e == Head(s)
         IN IF e.plain /\ e.text # "" THEN <<e.text>> \o PlainTexts(Tail(s))
            ELSE PlainTexts(Tail(s))

\* extract_urls_from_sitemap_robust: strategies 1-3 return the collected
\* list as it is, only the regex fallback removes duplicates
extract_urls_from_sitemap_robust(doc) ==
    IF ~doc.long THEN <<>>
    ELSE LET s1 == IF doc.wf THEN SelectTexts(doc.entries, {"ns_url_loc"}) ELSE <<>>
             s2 == IF doc.wf THEN SelectTexts(doc.entries, {"url_loc"}) ELSE <<>>
             s3 == IF doc.wf
                   THEN SelectTexts(doc.entries, LocKinds)
                   ELSE <<>>
             s4 == Dedupe(PlainTexts(doc.entries))
         IN IF s1 # <<>> THEN s1
            ELSE IF s2 # <<>> THEN s2
            ELSE IF s3 # <<>> THEN s3
            ELSE s4

RECURSIVE HinduTexts(_, _)
\* texts of the entries of s with a kind in kinds that are thehindu.com URLs
HinduTexts(s, kinds) ==
    IF s = <<>> THEN <<>>
    ELSE LET e == Head(s)
             rest == HinduTexts(Tail(s), kinds)
         IN IF e.kind \in kinds /\ e.text \in URLs THEN <<e.text>> \o rest ELSE rest

\* extract_article_urls_from_feed: item links of the parsed tree, else the
\* regex over the raw text; both results are de-duplicated
extract_article_urls_from_feed(doc) ==
    IF ~doc.long THEN <<>>
    ELSE LET s1 == IF doc.wf THEN HinduTexts(doc.entries, {"item_link"}) ELSE <<>>
             s2 == HinduTexts(doc.entries, AllKinds)
         IN IF s1 # <<>> THEN Dedupe(s1) ELSE Dedupe(s2)


\* ------------------------------------------------------------- retry_async
\* retry_async's except branch with the budget test written `>` instead of
\* `>=`: one call too many
retry_async_except_one_more(attempt, max_retries, base_backoff) ==
    LET a == attempt + 1
    IN [attempt |-> a,
        raise   |-> a > max_retries,
        backoff |-> base_backoff * Pow2(a - 1)]

\* retry_async's except branch with the exponent taken from the incremented
\* counter: the delays start at twice the base
retry_async_except_late_exponent(attempt, max_retries, base_backoff) ==
    LET a == attempt + 1
    IN [attempt |-> a,
        raise   |-> a >= max_retries,
        backoff |-> base_backoff * Pow2(a)]

\* retry_async's except branch with the budget test written `==` instead of
\* `>=`: a budget below 1 is never met
retry_async_except_equal(attempt, max_retries, base_backoff) ==
    LET a == attempt + 1
    IN [attempt |-> a,
        raise   |-> a = max_retries,
        backoff |-> base_backoff * Pow2(a - 1)]

\* The except branch of retry_async, entered with the number of failures
\* counted so far: attempt += 1, re-raise when attempt >= max_retries, else
\* sleep base_backoff * 2 ** (attempt - 1) and call again.
retry_async_except(attempt, max_retries, base_backoff) ==
    LET a == attempt + 1
    IN [attempt |-> a,
        raise   |-> a >= max_retries,
        backoff |-> base_backoff * Pow2(a - 1)]

\* ------------------------------------------------------------- files
Sites == {"aaj_tak", "the_hindu"}
SiteOf(sec) == IF sec = AajSec THEN "aaj_tak" ELSE "the_hindu"

Missing == [st |-> "missing"]            \* no file at the path
Partial == [st |-> "partial"]            \* a file cut off inside the JSON text
Ok(d) == [st |-> "ok", data |-> d]       \* a file holding the whole JSON text of d

\* A file holding a JSON document that save_progress did not write.  JSON
\* values as json.load returns them:
JNumber == [type |-> "number"]                        \* int / float
JString(t) == [type |-> "string", text |-> t]         \* str
JArray(items) == [type |-> "array", items |-> items]  \* list
JObject(keys, values) ==                              \* dict, keys[i]: values[i]
    [type |-> "object", keys |-> keys, values |-> values]
Json(v) == [st |-> "json", value |-> v]

\* the characters of the strings used below
CharsOf(t) == IF t = "u1" THEN <<"u", "1">> ELSE IF t = "u2" THEN <<"u", "2">> ELSE <<>>

\* what set(v) and list(v) iterate over: the items of a list, the keys of a
\* dict, the characters of a str; TypeError for a number
Iterate(v) ==
    IF v.type = "array" THEN [raises |-> FALSE, items |-> v.items]
    ELSE IF v.type = "object"
    THEN [raises |-> FALSE, items |-> [i \in 1..Len(v.keys) |-> JString(v.keys[i])]]
    ELSE IF v.type = "string"
    THEN [raises |-> FALSE,
          items |-> [i \in 1..Len(CharsOf(v.text)) |-> JString(CharsOf(v.text)[i])]]
    ELSE [raises |-> TRUE, items |-> <<>>]
\* lists and dicts cannot be members of a set
Hashable(v) == v.type \in {"string", "number"}
\* the member as it compares with a URL string
Key(v) == IF v.type = "string" THEN v.text ELSE v.type


EmptyDict == [s \in {} |-> <<>>]
Get(dict, sec) == IF sec \in DOMAIN dict THEN dict[sec] ELSE <<>>
\* progress.setdefault(section, []); progress[section].append(url)
AppendTo(dict, sec, url) ==
    [s \in (DOMAIN dict) \cup {sec} |->
        IF s = sec THEN Append(Get(dict, sec), url) ELSE dict[s]]

\* load_progress that never finds the file (a wrong path): always set()
load_progress_wrong_path(file) == {}

\* aaj_tak load_progress: set(json.load(f)); set() when the file is missing
\* or when json.load or set(...) raises
load_progress(file) ==
    IF file.st = "ok" THEN file.data
    ELSE IF file.st = "json"
    THEN LET it == Iterate(file.value)
         IN IF it.raises \/ \E i \in 1..Len(it.items) : ~Hashable(it.items[i])
            THEN {}
            ELSE {Key(it.items[i]) : i \in 1..Len(it.items)}
    ELSE {}

\* the_hindu load_progress: {k: list(v)} when the document is a dict; {} when
\* the file is missing, when json.load or a list(v) raises, and when the
\* document is no dict
hindu_load_progress(file) ==
    IF file.st = "ok" THEN file.data
    ELSE IF file.st = "json" /\ file.value.type = "object"
    THEN LET v == file.value
             n == Len(v.keys)
         IN IF \E i \in 1..n : Iterate(v.values[i]).raises
            THEN EmptyDict
            ELSE [k \in Range(v.keys) |->
                    LET i == CHOOSE j \in 1..n : v.keys[j] = k
                        items == Iterate(v.values[i]).items
                    IN [j \in 1..Len(items) |-> Key(items[j])]]
    ELSE EmptyDict

\* ------------------------------------------------------------- state
VARIABLES
    entry,          \* the program that is started: main_crawler.py, or one
                    \* crawler's run() on its own (run_crawlers.py, __main__)
    cfg,            \* settings of both crawlers, fixed for the whole behaviour
    web,            \* the document each source serves (unchanged between runs)
    mainpc,         \* where main_crawler.main stands
    runs,           \* number of times the process was started
    orch,           \* per source: pc and retry counter of its orchestrator
    tasks,          \* per source: the scrape coroutines handed to gather
    done_set,       \* aaj_tak: the set `done` shared by the scrape tasks
    progress,       \* the_hindu: the dict `progress` shared by the scrape tasks
    SEM,            \* aaj_tak.SEM
    PAGE_SEM,       \* the_hindu.PAGE_SEM
    progress_file,  \* per site: content at the progress file's path
    tmp_file,       \* per site: content at progress_file + ".tmp"
    md_files,       \* the markdown files on disk: path and content
    meta_files,     \* the metadata files on disk: path and content
    log_file,       \* per site: the lines of the failure log
    fetched,        \* <<source, url>> whose page fetch was started in this run
    at_start,       \* per site: the progress file as it was when the crawler's
                    \* run in progress began
    rt,             \* one retry_async call observed on its own
    ex              \* one call of a URL extractor observed on its own

vars == <<entry, cfg, web, mainpc, runs, orch, tasks, done_set, progress, SEM, PAGE_SEM,
          progress_file, tmp_file, md_files, meta_files, log_file, fetched,
          at_start, rt, ex>>

NoSem == -1                                   \* SEM is None
Idle == [pc |-> "idle", attempt |-> 0]
NoTasks == [s \in AllSecs |-> <<>>]
NotStarted == [s \in Sites |-> Missing]
ExIdle == [pc |-> "idle", fn |-> "none", doc |-> Doc(TRUE, FALSE, <<>>), urls |-> <<>>,
           collected |-> <<>>, ran |-> <<>>, result |-> <<>>]
RtIdle == [pc |-> "idle", max_retries |-> 0, base_backoff |-> 0, fails |-> 0,
           attempt |-> 0, calls |-> 0, sleeps |-> <<>>, outcome |-> "none",
           value |-> 0]

\* ------------------------------------------------------------- pages and placement
\* The text of each URL after its scheme, as characters: host, then path.
UrlText(u) ==
    IF u = "u1" THEN <<"a", "/", "I", " ", "%", "n", "/", "x">>
    ELSE IF u = "u2" THEN <<"b", "/", "%", "/", "y">>
    ELSE <<"c">>

\* The result crawler.arun returns for a page: u1 has text, u2 comes back
\* with an empty body (no markdown, no extracted content, no html).
arun_result(u) ==
    IF u = "u2" THEN [markdown |-> "", extracted_content |-> "", html |-> ""]
    ELSE [markdown |-> "# text", extracted_content |-> "", html |-> "<p>text</p>"]

\* md = result.markdown, else extracted_content, else html, else ""
md_of(result) ==
    IF result.markdown # "" THEN result.markdown
    ELSE IF result.extracted_content # "" THEN result.extracted_content
    ELSE result.html

NiceMax == 60
Uncategorized == <<"u", "n", "c", "a", "t", "e", "g", "o", "r", "i", "z", "e", "d">>

RECURSIVE LStrip(_, _)
LStrip(cs, c) == IF cs # <<>> /\ Head(cs) = c THEN LStrip(Tail(cs), c) ELSE cs
RECURSIVE RStrip(_, _)
RStrip(cs, c) ==
    IF cs # <<>> /\ cs[Len(cs)] = c THEN RStrip(SubSeq(cs, 1, Len(cs) - 1), c) ELSE cs
\* str.strip(c)
Strip(cs, c) == RStrip(LStrip(cs, c), c)
RECURSIVE Before(_, _)
\* str.split(c)[0]
Before(cs, c) ==
    IF cs = <<>> \/ Head(cs) = c THEN <<>> ELSE <<Head(cs)>> \o Before(Tail(cs), c)
RECURSIVE From(_, _)
\* the text from the first c on: urlparse(url).path for c = "/"
From(cs, c) == IF cs = <<>> \/ Head(cs) = c THEN cs ELSE From(Tail(cs), c)
\* str.lower() on the letters used
Lower(c) == IF c = "I" THEN "i" ELSE c
SafeChars == {"a", "b", "c", "i", "n", "x", "y", "_", "-"}
RECURSIVE Sanitize(_)
\* re.sub(r"[^a-z0-9_-]+", "_", first): each run of other characters
\* becomes one "_"
Sanitize(cs) ==
    IF cs = <<>> THEN <<>>
    ELSE IF Head(cs) \in SafeChars THEN <<Head(cs)>> \o Sanitize(Tail(cs))
    ELSE IF Tail(cs) # <<>> /\ Head(Tail(cs)) \notin SafeChars THEN Sanitize(Tail(cs))
    ELSE <<"_">> \o Sanitize(Tail(cs))

\* a category directory named after the run instead of the URL
extract_category_per_run(url) ==
    IF runs <= 1 THEN <<"r", "u", "n", "_", "a">> ELSE <<"r", "u", "n", "_", "b">>

\* extract_category: the first path segment, lower-cased and sanitized, or
\* "uncategorized"
extract_category(url) ==
    LET path == Strip(From(UrlText(url), "/"), "/")
        first == Before(path, "/")
        lowered == [i \in 1..Len(first) |-> Lower(first[i])]
        clean == Strip(Sanitize(lowered), "_")
    IN IF path = <<>> THEN Uncategorized
       ELSE IF clean = <<>> THEN Uncategorized ELSE clean

\* extract_category of each URL a page can have, as a table
Categories == [u \in URLs \cup {OffSite} |-> extract_category(u)]

\* url_to_fname: the URL without scheme, "/" replaced by "_", cut to 60
\* characters, followed by the first 12 hex digits of the URL's sha1 (kept
\* as the hash of that URL, not computed)
url_to_fname(url) ==
    LET flat == [i \in 1..Len(UrlText(url)) |->
                    IF UrlText(url)[i] = "/" THEN "_" ELSE UrlText(url)[i]]
        nice == IF Len(flat) > NiceMax THEN SubSeq(flat, 1, NiceMax) \o <<".", ".", ".">>
                ELSE flat
    IN [nice |-> nice, h |-> <<"sha1", url>>]

\* documents the sources serve in the crawl runs
SitemapNone == Doc(TRUE, TRUE, <<>>)
SitemapTwo ==
    Doc(TRUE, TRUE, <<Entry("ns_url_loc", "u1", TRUE), Entry("ns_url_loc", "u2", TRUE)>>)
SitemapTwice ==
    Doc(TRUE, TRUE, <<Entry("ns_url_loc", "u1", TRUE), Entry("ns_url_loc", "u1", TRUE)>>)
SitemapBroken ==
    Doc(FALSE, TRUE, <<Entry("text", "u1", TRUE), Entry("text", "u1", TRUE)>>)
SitemapThree ==
    Doc(TRUE, TRUE, <<Entry("url_loc", "u1", TRUE), Entry("url_loc", "u2", TRUE),
                      Entry("url_loc", "u1", TRUE)>>)
SitemapDocs == {SitemapNone, SitemapTwo, SitemapTwice, SitemapThree, SitemapBroken}

FeedNone == Doc(TRUE, TRUE, <<Entry("item_link", OffSite, FALSE)>>)
FeedTwice ==
    Doc(TRUE, TRUE, <<Entry("item_link", "u1", FALSE), Entry("item_link", OffSite, FALSE),
                      Entry("item_link", "u1", FALSE)>>)
FeedBroken == Doc(FALSE, TRUE, <<Entry("text", "u1", FALSE), Entry("text", "u2", FALSE)>>)
\* the feeds of the two sections, india and world
FeedPairs == {<<FeedBroken, FeedNone>>, <<FeedTwice, FeedTwice>>}

Settings == [concurrency : 1..MaxConc, max_retries : 1..MaxRetries]
\* for the two-section crawler: each setting varied while the other stays at 1
AxisSettings == {st \in Settings : st.concurrency = 1 \/ st.max_retries = 1}
Smallest == [concurrency |-> 1, max_retries |-> 1]

\* nothing has run yet; the progress files are as given
Fresh(files) ==
    /\ mainpc = "start" /\ runs = 0
    /\ orch = [s \in AllSecs |-> Idle]
    /\ tasks = NoTasks
    /\ done_set = {} /\ progress = EmptyDict
    /\ SEM = NoSem /\ PAGE_SEM = NoSem
    /\ progress_file = files
    /\ tmp_file = [s \in Sites |-> Missing]
    /\ md_files = {} /\ meta_files = {}
    /\ log_file = [s \in Sites |-> EmptyBag]
    /\ fetched = {} /\ at_start = NotStarted

CrawlIdle == Fresh([s \in Sites |-> Missing])

Entries == {"main_crawler", "aaj_tak", "the_hindu"}
Served(sitemap, feeds) ==
    [s \in AllSecs |-> IF s = AajSec THEN sitemap
                       ELSE IF s = "india" THEN feeds[1] ELSE feeds[2]]

\* The inputs of a behaviour: which program is started, its settings and the
\* documents served.  A crawler that the entry never runs gets one fixed input.
Init ==
    /\ entry \in Entries
    /\ \/ /\ entry = "aaj_tak"
          /\ \E st \in Settings : cfg = [aaj_tak |-> st, the_hindu |-> Smallest]
          /\ \E d \in SitemapDocs : web = Served(d, <<FeedNone, FeedNone>>)
       \/ /\ entry = "the_hindu"
          /\ \E st \in AxisSettings : cfg = [aaj_tak |-> Smallest, the_hindu |-> st]
          /\ \E f \in FeedPairs : web = Served(SitemapNone, f)
       \/ /\ entry = "main_crawler"
          /\ cfg = [aaj_tak |-> Smallest, the_hindu |-> Smallest]
          /\ \E d \in {SitemapNone, SitemapTwice} :
                web = Served(d, <<FeedTwice, FeedNone>>)
    /\ CrawlIdle
    /\ rt = RtIdle /\ ex = ExIdle

crawlvars == <<entry, cfg, web, mainpc, runs, orch, tasks, done_set, progress, SEM, PAGE_SEM,
               progress_file, tmp_file, md_files, meta_files, log_file, fetched,
               at_start>>

\* ------------------------------------------------------------- shared pieces
SyncPcs == {"wrote_md", "wrote_meta", "tmp_open", "tmp_written"}
TerminalPcs == {"skipped", "done", "failed"}

\* A scrape task is between two awaits (writing its files): the event loop
\* runs nothing else until it suspends or returns.
SyncBusy == \E s \in AllSecs : \E i \in 1..Len(tasks[s]) : tasks[s][i].pc \in SyncPcs

\* the membership test looking in the wrong collection: never a hit
InDone_never(sec, url) == FALSE

Sem(sec) == IF sec = AajSec THEN SEM ELSE PAGE_SEM
Limit(sec) == cfg[SiteOf(sec)].concurrency
InDone(sec, url) ==
    IF sec = AajSec THEN url \in done_set ELSE url \in Range(Get(progress, sec))

SetTask(sec, i, pc, attempt) ==
    [tasks EXCEPT ![sec][i] = [url |-> tasks[sec][i].url, pc |-> pc, attempt |-> attempt]]
SetSem(sec, v) ==
    /\ SEM' = IF sec = AajSec THEN v ELSE SEM
    /\ PAGE_SEM' = IF sec = AajSec THEN PAGE_SEM ELSE v
LogLine(target, error) == [target |-> target, error |-> error]
\* log_failure: one line appended to the site's failure log.  The log is
\* kept as the bag of its lines (the order of the lines and their time
\* stamps are left out; nothing reads the log back).
log_failure(site, target, error) ==
    log_file' = [log_file EXCEPT ![site] = @ (+) SetToBag({LogLine(target, error)})]

NewTasks(urls) == [i \in 1..Len(urls) |-> [url |-> urls[i], pc |-> "new", attempt |-> 0]]

\* ------------------------------------------------------------- main_crawler.main
Restartable == {"start", "crashed", "done", "raised"}

\* The process starts and aaj_tak_crawl.run is called (by main_crawler.main
\* or on its own): SEM reset, progress file loaded, sitemap fetch started.
StartAaj ==
    /\ entry \in {"main_crawler", "aaj_tak"}
    /\ mainpc \in Restartable
    /\ runs < MaxRuns
    /\ runs' = runs + 1
    /\ mainpc' = "aaj"
    /\ SEM' = NoSem /\ PAGE_SEM' = NoSem
    /\ done_set' = load_progress(progress_file["aaj_tak"])
    /\ progress' = EmptyDict
    /\ at_start' = [NotStarted EXCEPT !.aaj_tak = progress_file["aaj_tak"]]
    /\ orch' = [s \in AllSecs |-> IF s = AajSec THEN [pc |-> "fetching", attempt |-> 0] ELSE Idle]
    /\ tasks' = NoTasks
    /\ fetched' = {}
    /\ UNCHANGED <<entry, cfg, web, progress_file, tmp_file, md_files, meta_files, log_file, rt, ex>>

\* hindu_crawl.run is called, by main_crawler.main once aaj_tak_crawl.run has
\* returned (asyncio.run is over, its coroutines and the local `done` are
\* gone) or on its own: PAGE_SEM reset, progress loaded, one process_feed per
\* section gathered.
StartHindu ==
    /\ \/ /\ entry = "main_crawler"
          /\ mainpc = "aaj" /\ orch[AajSec].pc = "returned"
          /\ runs' = runs
       \/ /\ entry = "the_hindu"
          /\ mainpc \in Restartable
          /\ runs < MaxRuns
          /\ runs' = runs + 1
    /\ mainpc' = "hindu"
    /\ PAGE_SEM' = NoSem
    /\ progress' = hindu_load_progress(progress_file["the_hindu"])
    /\ at_start' = [NotStarted EXCEPT !.the_hindu = progress_file["the_hindu"]]
    /\ orch' = [s \in AllSecs |-> IF s \in HinduSecs THEN [pc |-> "fetching", attempt |-> 0]
                                  ELSE orch[s]]
    /\ tasks' = NoTasks /\ done_set' = {} /\ fetched' = {}
    /\ UNCHANGED <<entry, cfg, web, SEM, progress_file, tmp_file,
                   md_files, meta_files, log_file, rt, ex>>

\* aaj_tak_crawl.run returns to its caller when it was started on its own
FinishAaj ==
    /\ entry = "aaj_tak"
    /\ mainpc = "aaj" /\ orch[AajSec].pc = "returned"
    /\ mainpc' = "done"
    /\ UNCHANGED <<entry, cfg, web, runs, orch, tasks, done_set, progress, SEM, PAGE_SEM,
                   progress_file, tmp_file, md_files, meta_files, log_file, fetched,
                   at_start, rt, ex>>

\* _main_async's gather over the process_feed coroutines returns
FinishHindu ==
    /\ mainpc = "hindu"
    /\ \A s \in HinduSecs : orch[s].pc \in {"returned", "failed"}
    /\ mainpc' = "done"
    /\ UNCHANGED <<entry, cfg, web, runs, orch, tasks, done_set, progress, SEM, PAGE_SEM,
                   progress_file, tmp_file, md_files, meta_files, log_file, fetched,
                   at_start, rt, ex>>

\* The process is killed: memory is lost, the files stay as they are.
Crash ==
    /\ mainpc \in {"aaj", "hindu"}
    /\ mainpc' = "crashed"
    /\ orch' = [s \in AllSecs |-> Idle]
    /\ tasks' = NoTasks
    /\ done_set' = {} /\ progress' = EmptyDict
    /\ SEM' = NoSem /\ PAGE_SEM' = NoSem
    /\ fetched' = {} /\ at_start' = NotStarted
    /\ UNCHANGED <<entry, cfg, web, runs, progress_file, tmp_file, md_files, meta_files,
                   log_file, rt, ex>>

\* ------------------------------------------------------------- sitemap / feed fetch
\* The fetch of a source's document gave up: fetch_sitemap_via_crawler is
\* called outside any try, so the error leaves scrape_urls_from_sitemap,
\* run and main_crawler.main; process_feed catches it and logs the feed URL.
DocFetchGaveUp(sec, error) ==
    IF sec = AajSec
    THEN /\ orch' = [orch EXCEPT ![sec] = [pc |-> "raised", attempt |-> 0]]
         /\ mainpc' = "raised"
         /\ UNCHANGED log_file
    ELSE /\ orch' = [orch EXCEPT ![sec] = [pc |-> "failed", attempt |-> 0]]
         /\ log_failure("the_hindu", sec, error)
         /\ UNCHANGED mainpc

\* crawler.arun raises inside retry_async
DocFetchFail(sec) ==
    /\ orch[sec].pc = "fetching" /\ ~SyncBusy
    /\ LET r == retry_async_except(orch[sec].attempt, cfg[SiteOf(sec)].max_retries, 1)
       IN IF r.raise
          THEN DocFetchGaveUp(sec, "fetch_error")
          ELSE /\ orch' = [orch EXCEPT ![sec] = [pc |-> "sleeping", attempt |-> r.attempt]]
               /\ UNCHANGED <<mainpc, log_file>>
    /\ UNCHANGED <<entry, cfg, web, runs, tasks, done_set, progress, SEM, PAGE_SEM,
                   progress_file, tmp_file, md_files, meta_files, fetched, at_start, rt, ex>>

\* asyncio.sleep(backoff) is over: the next call of crawler.arun
DocFetchWake(sec) ==
    /\ orch[sec].pc = "sleeping" /\ ~SyncBusy
    /\ orch' = [orch EXCEPT ![sec].pc = "fetching"]
    /\ UNCHANGED <<entry, cfg, web, mainpc, runs, tasks, done_set, progress, SEM, PAGE_SEM,
                   progress_file, tmp_file, md_files, meta_files, log_file, fetched,
                   at_start, rt, ex>>

\* crawler.arun returns a result without html: RuntimeError after retry_async
DocFetchEmpty(sec) ==
    /\ orch[sec].pc = "fetching" /\ ~SyncBusy
    /\ DocFetchGaveUp(sec, "empty_response")
    /\ UNCHANGED <<entry, cfg, web, runs, tasks, done_set, progress, SEM, PAGE_SEM,
                   progress_file, tmp_file, md_files, meta_files, fetched, at_start, rt, ex>>

\* to_process = [u for u in urls if u not in done]
to_process(urls, sec) ==
    LET Pending(u) == ~InDone(sec, u)
    IN SelectSeq(urls, Pending)

extract(sec) ==
    IF sec = AajSec THEN extract_urls_from_sitemap_robust(web[sec])
    ELSE extract_article_urls_from_feed(web[sec])

\* an orchestrator that takes an empty URL list for a fault: it logs a
\* failure for the source before it returns
DocFetchOk_empty_is_failure(sec) ==
    /\ orch[sec].pc = "fetching" /\ ~SyncBusy
    /\ LET urls == extract(sec)
       IN IF urls = <<>>
          THEN /\ orch' = [orch EXCEPT ![sec] = [pc |-> "returned", attempt |-> 0]]
               /\ log_failure(SiteOf(sec), sec, "no_urls")
               /\ UNCHANGED tasks
          ELSE /\ orch' = [orch EXCEPT ![sec] = [pc |-> "gather", attempt |-> 0]]
               /\ tasks' = [tasks EXCEPT ![sec] = NewTasks(to_process(urls, sec))]
               /\ UNCHANGED log_file
    /\ UNCHANGED <<entry, cfg, web, mainpc, runs, done_set, progress, SEM, PAGE_SEM,
                   progress_file, tmp_file, md_files, meta_files, fetched,
                   at_start, rt, ex>>

\* crawler.arun returns the document: extract the URLs, drop the completed
\* ones, create the scrape coroutines and gather them.  scrape_urls_from_sitemap
\* returns at once when no URL was found.
DocFetchOk(sec) ==
    /\ orch[sec].pc = "fetching" /\ ~SyncBusy
    /\ LET urls == extract(sec)
       IN IF sec = AajSec /\ urls = <<>>
          THEN /\ orch' = [orch EXCEPT ![sec] = [pc |-> "returned", attempt |-> 0]]
               /\ UNCHANGED tasks
          ELSE /\ orch' = [orch EXCEPT ![sec] = [pc |-> "gather", attempt |-> 0]]
               /\ tasks' = [tasks EXCEPT ![sec] = NewTasks(to_process(urls, sec))]
    /\ UNCHANGED <<entry, cfg, web, mainpc, runs, done_set, progress, SEM, PAGE_SEM,
                   progress_file, tmp_file, md_files, meta_files, log_file, fetched,
                   at_start, rt, ex>>

\* gather without return_exceptions: it returns as soon as one task has
\* failed, while the siblings are still running
GatherReturn_first_failure(sec) ==
    /\ orch[sec].pc = "gather" /\ ~SyncBusy
    /\ \/ \A i \in 1..Len(tasks[sec]) : tasks[sec][i].pc \in TerminalPcs
       \/ \E i \in 1..Len(tasks[sec]) : tasks[sec][i].pc = "failed"
    /\ orch' = [orch EXCEPT ![sec].pc = "returned"]
    /\ UNCHANGED <<entry, cfg, web, mainpc, runs, tasks, done_set, progress, SEM, PAGE_SEM,
                   progress_file, tmp_file, md_files, meta_files, log_file, fetched,
                   at_start, rt, ex>>

\* waiting with asyncio.wait(..., return_when=FIRST_COMPLETED): the
\* orchestrator goes on as soon as one task has finished
GatherReturn_first_completed(sec) ==
    /\ orch[sec].pc = "gather" /\ ~SyncBusy
    /\ \/ tasks[sec] = <<>>
       \/ \E i \in 1..Len(tasks[sec]) : tasks[sec][i].pc \in TerminalPcs
    /\ orch' = [orch EXCEPT ![sec].pc = "returned"]
    /\ UNCHANGED <<entry, cfg, web, mainpc, runs, tasks, done_set, progress, SEM, PAGE_SEM,
                   progress_file, tmp_file, md_files, meta_files, log_file, fetched,
                   at_start, rt, ex>>

\* tasks that re-raise after logging: gather hands their exceptions to the
\* orchestrator, whose scan of the results logs a failed task again
GatherReturn_logs_again(sec) ==
    /\ orch[sec].pc = "gather" /\ ~SyncBusy
    /\ \A i \in 1..Len(tasks[sec]) : tasks[sec][i].pc \in TerminalPcs
    /\ orch' = [orch EXCEPT ![sec].pc = "returned"]
    /\ IF \E i \in 1..Len(tasks[sec]) : tasks[sec][i].pc = "failed"
       THEN LET i == CHOOSE j \in 1..Len(tasks[sec]) : tasks[sec][j].pc = "failed"
            IN log_failure(SiteOf(sec), tasks[sec][i].url, "fetch_error")
       ELSE UNCHANGED log_file
    /\ UNCHANGED <<entry, cfg, web, mainpc, runs, tasks, done_set, progress, SEM, PAGE_SEM,
                   progress_file, tmp_file, md_files, meta_files, fetched,
                   at_start, rt, ex>>

\* gather returns once every scrape task has returned; no task raises, so the
\* scan of the results logs nothing
GatherReturn(sec) ==
    /\ orch[sec].pc = "gather" /\ ~SyncBusy
    /\ \A i \in 1..Len(tasks[sec]) : tasks[sec][i].pc \in TerminalPcs
    /\ orch' = [orch EXCEPT ![sec].pc = "returned"]
    /\ UNCHANGED <<entry, cfg, web, mainpc, runs, tasks, done_set, progress, SEM, PAGE_SEM,
                   progress_file, tmp_file, md_files, meta_files, log_file, fetched,
                   at_start, rt, ex>>

\* ------------------------------------------------------------- scrape task
\* scrape_single_page / scrape_article_and_save.  A task's pc:
\*   new       coroutine created, not yet run
\*   skipped   returned at `if url in done_set: return`
\*   waiting   suspended in `async with SEM`
\*   fetching  inside crawler.arun, called by retry_async
\*   sleeping  inside asyncio.sleep(backoff) of retry_async
\*   wrote_md, wrote_meta, tmp_open, tmp_written   the file writes after a
\*             successful fetch, up to os.replace
\*   done      progress saved, permit released
\*   failed    retries exhausted, failure logged, permit released
IsTask(sec, i) == i \in 1..Len(tasks[sec])

\* a semaphore that hands out a permit whatever its value
sem_acquire_unbounded(value) == TRUE

\* `async with SEM` when the task reaches it: the permit is taken at once
\* when one is free, else the task suspends
sem_acquire(value) == value > 0

\* The first run of the coroutine: the done check, the lazy creation of the
\* semaphore, then the permit or the wait for it.  gather starts the
\* coroutines in list order.
TaskStart(sec, i) ==
    /\ IsTask(sec, i) /\ tasks[sec][i].pc = "new" /\ ~SyncBusy
    /\ \A j \in 1..(i - 1) : tasks[sec][j].pc # "new"
    /\ IF InDone(sec, tasks[sec][i].url)
       THEN /\ tasks' = SetTask(sec, i, "skipped", 0)
            /\ UNCHANGED <<SEM, PAGE_SEM, fetched>>
       ELSE LET sem == IF Sem(sec) = NoSem THEN Limit(sec) ELSE Sem(sec)
            IN IF sem_acquire(sem)
               THEN /\ SetSem(sec, sem - 1)
                    /\ tasks' = SetTask(sec, i, "fetching", 0)
                    /\ fetched' = fetched \cup {<<sec, tasks[sec][i].url>>}
               ELSE /\ SetSem(sec, sem)
                    /\ tasks' = SetTask(sec, i, "waiting", 0)
                    /\ UNCHANGED fetched
    /\ UNCHANGED <<entry, cfg, web, mainpc, runs, orch, done_set, progress, progress_file,
                   tmp_file, md_files, meta_files, log_file, at_start, rt, ex>>

\* A permit was released: a waiting task takes it and calls crawler.arun
TaskAcquire(sec, i) ==
    /\ IsTask(sec, i) /\ tasks[sec][i].pc = "waiting" /\ ~SyncBusy
    /\ sem_acquire(Sem(sec))
    /\ SetSem(sec, Sem(sec) - 1)
    /\ tasks' = SetTask(sec, i, "fetching", 0)
    /\ fetched' = fetched \cup {<<sec, tasks[sec][i].url>>}
    /\ UNCHANGED <<entry, cfg, web, mainpc, runs, orch, done_set, progress, progress_file,
                   tmp_file, md_files, meta_files, log_file, at_start, rt, ex>>

\* retry_async run outside `async with SEM`, the permit taken around each
\* single call: a task going to sleep gives its permit back
TaskFetchFail_sleeps_without_permit(sec, i) ==
    /\ IsTask(sec, i) /\ tasks[sec][i].pc = "fetching" /\ ~SyncBusy
    /\ LET r == retry_async_except(tasks[sec][i].attempt,
                                   cfg[SiteOf(sec)].max_retries, 1)
       IN IF r.raise
          THEN /\ tasks' = SetTask(sec, i, "failed", 0)
               /\ log_failure(SiteOf(sec), tasks[sec][i].url, "fetch_error")
          ELSE /\ tasks' = SetTask(sec, i, "sleeping", r.attempt)
               /\ UNCHANGED log_file
    /\ SetSem(sec, Sem(sec) + 1)
    /\ UNCHANGED <<entry, cfg, web, mainpc, runs, orch, done_set, progress, progress_file,
                   tmp_file, md_files, meta_files, fetched, at_start, rt, ex>>

\* the permit acquired outside a context manager and released only on the
\* success path: a task that fails for good keeps it
TaskFetchFail_keeps_permit(sec, i) ==
    /\ IsTask(sec, i) /\ tasks[sec][i].pc = "fetching" /\ ~SyncBusy
    /\ LET r == retry_async_except(tasks[sec][i].attempt,
                                   cfg[SiteOf(sec)].max_retries, 1)
       IN IF r.raise
          THEN /\ tasks' = SetTask(sec, i, "failed", 0)
               /\ log_failure(SiteOf(sec), tasks[sec][i].url, "fetch_error")
          ELSE /\ tasks' = SetTask(sec, i, "sleeping", r.attempt)
               /\ UNCHANGED log_file
    /\ UNCHANGED <<entry, cfg, web, mainpc, runs, orch, done_set, progress, SEM, PAGE_SEM,
                   progress_file, tmp_file, md_files, meta_files, fetched,
                   at_start, rt, ex>>

\* crawler.arun raises: retry_async sleeps, or re-raises into the task's
\* except branch, which logs the failure; leaving `async with` releases
TaskFetchFail(sec, i) ==
    /\ IsTask(sec, i) /\ tasks[sec][i].pc = "fetching" /\ ~SyncBusy
    /\ LET r == retry_async_except(tasks[sec][i].attempt, cfg[SiteOf(sec)].max_retries, 1)
       IN IF r.raise
          THEN /\ tasks' = SetTask(sec, i, "failed", 0)
               /\ log_failure(SiteOf(sec), tasks[sec][i].url, "fetch_error")
               /\ SetSem(sec, Sem(sec) + 1)
          ELSE /\ tasks' = SetTask(sec, i, "sleeping", r.attempt)
               /\ UNCHANGED <<log_file, SEM, PAGE_SEM>>
    /\ UNCHANGED <<entry, cfg, web, mainpc, runs, orch, done_set, progress, progress_file,
                   tmp_file, md_files, meta_files, fetched, at_start, rt, ex>>

\* asyncio.sleep(backoff) is over: the next call of crawler.arun
TaskWake(sec, i) ==
    /\ IsTask(sec, i) /\ tasks[sec][i].pc = "sleeping" /\ ~SyncBusy
    /\ tasks' = SetTask(sec, i, "fetching", tasks[sec][i].attempt)
    /\ UNCHANGED <<entry, cfg, web, mainpc, runs, orch, done_set, progress, SEM, PAGE_SEM,
                   progress_file, tmp_file, md_files, meta_files, log_file, fetched,
                   at_start, rt, ex>>

\* where the files of a page go: the category (aaj_tak) or section (the_hindu)
\* directory under the raw / meta root, and the file name without extension
placement(sec, url) ==
    [dir   |-> IF sec = AajSec THEN Categories[url] ELSE <<sec>>,
     fname |-> url_to_fname(url)]

\* open(path, "w") and write: a file at that path is replaced.  `by` is the
\* source and URL of the task that wrote the file (not part of the file).
write_file(files, path, content, sec, url) ==
    {f \in files : f.path # path}
        \cup {[path |-> path, content |-> content, by |-> <<sec, url>>]}

\* crawler.arun returns: the markdown file is written, whatever md holds
TaskFetchOk(sec, i) ==
    /\ IsTask(sec, i) /\ tasks[sec][i].pc = "fetching" /\ ~SyncBusy
    /\ tasks' = SetTask(sec, i, "wrote_md", 0)
    /\ LET url == tasks[sec][i].url
       IN md_files' = write_file(md_files, placement(sec, url),
                                 md_of(arun_result(url)), sec, url)
    /\ UNCHANGED <<entry, cfg, web, mainpc, runs, orch, done_set, progress, SEM, PAGE_SEM,
                   progress_file, tmp_file, meta_files, log_file, fetched, at_start, rt, ex>>

\* the metadata written after save_progress instead of before it: at this
\* point the task only goes on
TaskWriteMeta_later(sec, i) ==
    /\ IsTask(sec, i) /\ tasks[sec][i].pc = "wrote_md"
    /\ tasks' = SetTask(sec, i, "wrote_meta", 0)
    /\ UNCHANGED <<entry, cfg, web, mainpc, runs, orch, done_set, progress, SEM, PAGE_SEM,
                   progress_file, tmp_file, md_files, meta_files, log_file, fetched,
                   at_start, rt, ex>>

\* the metadata file is written
TaskWriteMeta(sec, i) ==
    /\ IsTask(sec, i) /\ tasks[sec][i].pc = "wrote_md"
    /\ tasks' = SetTask(sec, i, "wrote_meta", 0)
    /\ LET url == tasks[sec][i].url
           where == placement(sec, url)
       IN meta_files' = write_file(meta_files, where,
                                   [url |-> url, site |-> SiteOf(sec), category |-> where.dir],
                                   sec, url)
    /\ UNCHANGED <<entry, cfg, web, mainpc, runs, orch, done_set, progress, SEM, PAGE_SEM,
                   progress_file, tmp_file, md_files, log_file, fetched, at_start, rt, ex>>

\* save_progress writing the destination itself instead of a temp file:
\* open(progress_file, "w") truncates the progress file
save_progress_open_in_place(sec, i) ==
    /\ IsTask(sec, i) /\ tasks[sec][i].pc = "wrote_meta"
    /\ tasks' = SetTask(sec, i, "tmp_open", 0)
    /\ IF sec = AajSec
       THEN /\ done_set' = done_set \cup {tasks[sec][i].url}
            /\ UNCHANGED progress
       ELSE /\ progress' = AppendTo(progress, sec, tasks[sec][i].url)
            /\ UNCHANGED done_set
    /\ progress_file' = [progress_file EXCEPT ![SiteOf(sec)] = Partial]
    /\ UNCHANGED <<entry, cfg, web, mainpc, runs, orch, SEM, PAGE_SEM, tmp_file,
                   md_files, meta_files, log_file, fetched, at_start, rt, ex>>

\* save_progress called before the URL is added to the in-memory ProgressSet:
\* the document written lacks the page just completed
save_progress_open_before_add(sec, i) ==
    /\ IsTask(sec, i) /\ tasks[sec][i].pc = "wrote_meta"
    /\ tasks' = SetTask(sec, i, "tmp_open", 0)
    /\ tmp_file' = [tmp_file EXCEPT ![SiteOf(sec)] = Partial]
    /\ UNCHANGED <<entry, cfg, web, mainpc, runs, orch, done_set, progress, SEM, PAGE_SEM,
                   progress_file, md_files, meta_files, log_file, fetched, at_start, rt, ex>>

\* done_set.add(url) / progress[section].append(url), then save_progress
\* opens the temp file for writing, which truncates it
save_progress_open(sec, i) ==
    /\ IsTask(sec, i) /\ tasks[sec][i].pc = "wrote_meta"
    /\ tasks' = SetTask(sec, i, "tmp_open", 0)
    /\ IF sec = AajSec
       THEN /\ done_set' = done_set \cup {tasks[sec][i].url}
            /\ UNCHANGED progress
       ELSE /\ progress' = AppendTo(progress, sec, tasks[sec][i].url)
            /\ UNCHANGED done_set
    /\ tmp_file' = [tmp_file EXCEPT ![SiteOf(sec)] = Partial]
    /\ UNCHANGED <<entry, cfg, web, mainpc, runs, orch, SEM, PAGE_SEM, progress_file,
                   md_files, meta_files, log_file, fetched, at_start, rt, ex>>

\* each task saving its own copy of the progress loaded at the start of the
\* run plus its own URL, instead of the shared in-memory structure
save_progress_dump_own_copy(sec, i) ==
    /\ IsTask(sec, i) /\ tasks[sec][i].pc = "tmp_open"
    /\ tasks' = SetTask(sec, i, "tmp_written", 0)
    /\ tmp_file' = [tmp_file EXCEPT ![SiteOf(sec)] =
                        IF sec = AajSec
                        THEN Ok(load_progress(at_start["aaj_tak"]) \cup {tasks[sec][i].url})
                        ELSE Ok(AppendTo(hindu_load_progress(at_start["the_hindu"]),
                                         sec, tasks[sec][i].url))]
    /\ UNCHANGED <<entry, cfg, web, mainpc, runs, orch, done_set, progress, SEM, PAGE_SEM,
                   progress_file, md_files, meta_files, log_file, fetched, at_start, rt, ex>>

\* the_hindu save_progress dumping only the list of the section whose task
\* triggered the save
save_progress_dump_own_section(sec, i) ==
    /\ IsTask(sec, i) /\ tasks[sec][i].pc = "tmp_open"
    /\ tasks' = SetTask(sec, i, "tmp_written", 0)
    /\ tmp_file' = [tmp_file EXCEPT ![SiteOf(sec)] =
                        IF sec = AajSec THEN Ok(done_set)
                        ELSE Ok([s \in {sec} |-> progress[sec]])]
    /\ UNCHANGED <<entry, cfg, web, mainpc, runs, orch, done_set, progress, SEM, PAGE_SEM,
                   progress_file, md_files, meta_files, log_file, fetched, at_start, rt, ex>>

\* json.dump has written the whole structure and the temp file is closed
save_progress_dump(sec, i) ==
    /\ IsTask(sec, i) /\ tasks[sec][i].pc = "tmp_open"
    /\ tasks' = SetTask(sec, i, "tmp_written", 0)
    /\ tmp_file' = [tmp_file EXCEPT ![SiteOf(sec)] =
                        IF sec = AajSec THEN Ok(done_set) ELSE Ok(progress)]
    /\ UNCHANGED <<entry, cfg, web, mainpc, runs, orch, done_set, progress, SEM, PAGE_SEM,
                   progress_file, md_files, meta_files, log_file, fetched, at_start, rt, ex>>

\* what os.replace(tmp, progress_file) leaves at the two paths
os_replace(site) ==
    /\ progress_file' = [progress_file EXCEPT ![site] = tmp_file[site]]
    /\ tmp_file' = [tmp_file EXCEPT ![site] = Missing]

\* the permit taken with SEM.acquire() and given back only in the except
\* branch: a task that completes keeps it
save_progress_replace_keeps_permit(sec, i) ==
    /\ IsTask(sec, i) /\ tasks[sec][i].pc = "tmp_written"
    /\ tasks' = SetTask(sec, i, "done", 0)
    /\ os_replace(SiteOf(sec))
    /\ UNCHANGED <<entry, cfg, web, mainpc, runs, orch, done_set, progress, SEM, PAGE_SEM,
                   md_files, meta_files, log_file, fetched, at_start, rt, ex>>

\* os.replace, then the task leaves `async with SEM` and returns
save_progress_replace(sec, i) ==
    /\ IsTask(sec, i) /\ tasks[sec][i].pc = "tmp_written"
    /\ tasks' = SetTask(sec, i, "done", 0)
    /\ os_replace(SiteOf(sec))
    /\ SetSem(sec, Sem(sec) + 1)
    /\ UNCHANGED <<entry, cfg, web, mainpc, runs, orch, done_set, progress, md_files,
                   meta_files, log_file, fetched, at_start, rt, ex>>

Next ==
    \/ StartAaj
    \/ StartHindu
    \/ FinishAaj
    \/ FinishHindu
    \/ Crash
    \/ \E sec \in AllSecs :
          \/ DocFetchFail(sec)
          \/ DocFetchWake(sec)
          \/ DocFetchEmpty(sec)
          \/ DocFetchOk(sec)
          \/ GatherReturn(sec)
    \/ \E sec \in AllSecs : \E i \in 1..MaxTasks :
          \/ TaskStart(sec, i)
          \/ TaskAcquire(sec, i)
          \/ TaskFetchFail(sec, i)
          \/ TaskWake(sec, i)
          \/ TaskFetchOk(sec, i)
          \/ TaskWriteMeta(sec, i)
          \/ save_progress_open(sec, i)
          \/ save_progress_dump(sec, i)
          \/ save_progress_replace(sec, i)

Spec == Init /\ [][Next]_vars

\* ------------------------------------------------------------- retry_async alone
\* One call retry_async(fn, max_retries = n, base_backoff = b) where fn raises
\* on its first `fails` calls and returns on the next one.  The result or
\* error of fn's k-th call is named k.
RetryInit ==
    /\ entry = "aaj_tak"
    /\ cfg = [s \in Sites |-> Smallest]
    /\ web = Served(SitemapNone, <<FeedNone, FeedNone>>)
    /\ CrawlIdle
    /\ \E n \in -1..MaxAttempts, b \in 1..MaxBase, k \in 0..(MaxAttempts + 1) :
          rt = [RtIdle EXCEPT !.pc = "calling", !.max_retries = n,
                              !.base_backoff = b, !.fails = k]
    /\ ex = ExIdle

\* `return await fn(...)`: the call returns
RetryCallReturns ==
    /\ rt.pc = "calling" /\ rt.calls >= rt.fails
    /\ rt' = [rt EXCEPT !.pc = "returned", !.calls = @ + 1,
                        !.outcome = "result", !.value = rt.calls + 1]
    /\ UNCHANGED <<crawlvars, ex>>

\* the call raises: the except branch counts it and re-raises it or sleeps
RetryCallRaises ==
    /\ rt.pc = "calling" /\ rt.calls < rt.fails
    /\ LET r == retry_async_except(rt.attempt, rt.max_retries, rt.base_backoff)
       IN IF r.raise
          THEN rt' = [rt EXCEPT !.pc = "raised", !.calls = @ + 1, !.attempt = r.attempt,
                                !.outcome = "error", !.value = rt.calls + 1]
          ELSE rt' = [rt EXCEPT !.pc = "sleeping", !.calls = @ + 1, !.attempt = r.attempt,
                                !.sleeps = Append(@, r.backoff)]
    /\ UNCHANGED <<crawlvars, ex>>

\* asyncio.sleep(backoff) returns: the loop calls fn again
RetrySleepOver ==
    /\ rt.pc = "sleeping"
    /\ rt' = [rt EXCEPT !.pc = "calling"]
    /\ UNCHANGED <<crawlvars, ex>>

RetryNext == RetryCallReturns \/ RetryCallRaises \/ RetrySleepOver

SpecRetry == RetryInit /\ [][RetryNext]_vars

\* ------------------------------------------------------------- the extractors, step by step
\* One call extract_urls_from_sitemap_robust(xml_text) or
\* extract_article_urls_from_feed(xml_text, n), one strategy per step.
\* ex.urls is the list `urls` the strategies share, ex.collected the list
\* the returning strategy made its result from, ex.ran the strategies run.
SeqsUpTo(S, n) == UNION {[1..k -> S] : k \in 0..n}
DocEntries ==
    {Entry(k, t, p) : k \in LocKinds, t \in URLs, p \in BOOLEAN}
        \cup {Entry(k, "", FALSE) : k \in LocKinds}
        \cup {Entry("item_link", t, FALSE) : t \in URLs \cup {OffSite}}
        \cup {Entry("text", t, p) : t \in URLs \cup {OffSite}, p \in BOOLEAN}
\* documents of 20 characters and more, and shorter ones (one part at most)
Docs ==
    {Doc(w, TRUE, es) : w \in BOOLEAN, es \in SeqsUpTo(DocEntries, MaxEntries)}
        \cup {Doc(w, FALSE, es) : w \in BOOLEAN, es \in SeqsUpTo(DocEntries, 1)}

ExtractInit ==
    /\ entry = "aaj_tak"
    /\ cfg = [s \in Sites |-> Smallest]
    /\ web = Served(SitemapNone, <<FeedNone, FeedNone>>)
    /\ CrawlIdle
    /\ rt = RtIdle
    /\ \E f \in {"sitemap", "feed"}, d \in Docs :
          ex = [ExIdle EXCEPT !.pc = "start", !.fn = f, !.doc = d]

ExReturn(collected, result, k) ==
    [ex EXCEPT !.pc = "returned", !.collected = collected, !.result = result,
               !.ran = Append(@, k)]
ExPass(next, urls, k) == [ex EXCEPT !.pc = next, !.urls = urls, !.ran = Append(@, k)]
EntriesOf(kinds) ==
    LET Among(e) == e.kind \in kinds
    IN SelectSeq(ex.doc.entries, Among)

\* `if not xml_text or len(xml_text) < 20: return urls`
ExCheckLength ==
    /\ ex.pc = "start"
    /\ ex' = IF ~ex.doc.long
             THEN [ex EXCEPT !.pc = "returned", !.result = ex.urls]
             ELSE [ex EXCEPT !.pc = "s1"]
    /\ UNCHANGED <<crawlvars, rt>>

\* strategy 1 with the `if urls: return urls` left out: what it collected stays
\* in urls for the next strategies
SitemapStrategy1_no_return ==
    /\ ex.fn = "sitemap" /\ ex.pc = "s1"
    /\ ex' = IF ~ex.doc.wf THEN ExPass("s2", ex.urls, 1)
             ELSE ExPass("s2", ex.urls \o SelectTexts(ex.doc.entries, {"ns_url_loc"}), 1)
    /\ UNCHANGED <<crawlvars, rt>>

\* 1) namespace-aware parse: ET.fromstring raising is swallowed; the loc
\* texts of the ns:url elements are appended to urls, returned when not empty
SitemapStrategy1 ==
    /\ ex.fn = "sitemap" /\ ex.pc = "s1"
    /\ ex' = IF ~ex.doc.wf THEN ExPass("s2", ex.urls, 1)
             ELSE LET urls == ex.urls \o SelectTexts(ex.doc.entries, {"ns_url_loc"})
                  IN IF EntriesOf({"ns_url_loc"}) # <<>> /\ urls # <<>>
                     THEN ExReturn(urls, urls, 1)
                     ELSE ExPass("s2", urls, 1)
    /\ UNCHANGED <<crawlvars, rt>>

\* 2) parse without namespaces: the same over the plain url elements
SitemapStrategy2 ==
    /\ ex.fn = "sitemap" /\ ex.pc = "s2"
    /\ ex' = IF ~ex.doc.wf THEN ExPass("s3", ex.urls, 2)
             ELSE LET urls == ex.urls \o SelectTexts(ex.doc.entries, {"url_loc"})
                  IN IF EntriesOf({"url_loc"}) # <<>> /\ urls # <<>>
                     THEN ExReturn(urls, urls, 2)
                     ELSE ExPass("s3", urls, 2)
    /\ UNCHANGED <<crawlvars, rt>>

\* strategy 3 without its try / except: a document that does not parse makes
\* the extractor raise
SitemapStrategy3_no_except ==
    /\ ex.fn = "sitemap" /\ ex.pc = "s3"
    /\ ex' = IF ~ex.doc.wf THEN [ex EXCEPT !.pc = "raised", !.ran = Append(@, 3)]
             ELSE LET urls == ex.urls \o SelectTexts(ex.doc.entries, LocKinds)
                  IN IF urls # <<>> THEN ExReturn(urls, urls, 3)
                     ELSE ExPass("s4", urls, 3)
    /\ UNCHANGED <<crawlvars, rt>>

\* 3) generic iteration: the text of every element whose tag ends with loc
SitemapStrategy3 ==
    /\ ex.fn = "sitemap" /\ ex.pc = "s3"
    /\ ex' = IF ~ex.doc.wf THEN ExPass("s4", ex.urls, 3)
             ELSE LET urls == ex.urls \o SelectTexts(ex.doc.entries, LocKinds)
                  IN IF urls # <<>> THEN ExReturn(urls, urls, 3)
                     ELSE ExPass("s4", urls, 3)
    /\ UNCHANGED <<crawlvars, rt>>

\* 4) the regex over the raw text; its matches are returned without
\* duplicates, whatever urls holds
SitemapRegex ==
    /\ ex.fn = "sitemap" /\ ex.pc = "s4"
    /\ LET found == PlainTexts(ex.doc.entries)
       IN ex' = ExReturn(found, Dedupe(found), 4)
    /\ UNCHANGED <<crawlvars, rt>>

\* 1) XML parse, the links of the items that are thehindu.com URLs; returned
\* without duplicates when there is one; a parse error falls through
FeedStrategy1 ==
    /\ ex.fn = "feed" /\ ex.pc = "s1"
    /\ ex' = IF ~ex.doc.wf THEN ExPass("s2", ex.urls, 1)
             ELSE LET urls == ex.urls \o HinduTexts(ex.doc.entries, {"item_link"})
                  IN IF urls # <<>> THEN ExReturn(urls, Dedupe(urls), 1)
                     ELSE ExPass("s2", urls, 1)
    /\ UNCHANGED <<crawlvars, rt>>

\* 2) regex fallback: every thehindu.com URL of the raw text, without duplicates
FeedRegex ==
    /\ ex.fn = "feed" /\ ex.pc = "s2"
    /\ LET found == HinduTexts(ex.doc.entries, AllKinds)
       IN ex' = ExReturn(found, Dedupe(found), 2)
    /\ UNCHANGED <<crawlvars, rt>>

ExtractNext ==
    \/ ExCheckLength
    \/ SitemapStrategy1
    \/ SitemapStrategy2
    \/ SitemapStrategy3
    \/ SitemapRegex
    \/ FeedStrategy1
    \/ FeedRegex

SpecExtract == ExtractInit /\ [][ExtractNext]_vars

\* ------------------------------------------------------------- foreign progress files
\* A crawler started on a progress file that it did not write: cut off
\* (no JSON at all) or holding JSON of another shape than the one
\* save_progress writes (aaj_tak: a list of URLs; the_hindu: a dict of lists).
AajForeign ==
    {Partial,
     Json(JNumber),
     Json(JString("u1")),
     Json(JArray(<<JArray(<<JString("u1")>>)>>)),
     Json(JObject(<<"u1">>, <<JNumber>>)),
     Json(JObject(<<"india">>, <<JArray(<<JString("u1")>>)>>))}
HinduForeign ==
    {Partial,
     Json(JNumber),
     Json(JArray(<<JString("u1")>>)),
     Json(JObject(<<"india">>, <<JNumber>>)),
     Json(JObject(<<"india", "world">>, <<JArray(<<JString("u1")>>), JNumber>>)),
     Json(JObject(<<"india">>, <<JString("u1")>>)),
     Json(JObject(<<"india">>, <<JObject(<<"u1">>, <<JNumber>>)>>))}

LoadInit ==
    /\ entry \in {"aaj_tak", "the_hindu"}
    /\ cfg = [s \in Sites |-> [concurrency |-> 1, max_retries |-> 2]]
    /\ web = Served(SitemapTwo, <<FeedTwice, FeedNone>>)
    /\ \E f \in AajForeign \cup HinduForeign :
          /\ entry = "aaj_tak" => f \in AajForeign
          /\ entry = "the_hindu" => f \in HinduForeign
          /\ Fresh([s \in Sites |-> IF s = entry THEN f ELSE Missing])
    /\ rt = RtIdle /\ ex = ExIdle

SpecLoad == LoadInit /\ [][Next]_vars

\* ------------------------------------------------------------- properties
\* crawler.arun calls of a source that have not returned yet: its document
\* fetch and the page fetches of its scrape tasks
ActiveCalls(sec) ==
    Cardinality({i \in 1..Len(tasks[sec]) : tasks[sec][i].pc = "fetching"})
    + (IF orch[sec].pc = "fetching" THEN 1 ELSE 0)
Waiting(sec) == {i \in 1..Len(tasks[sec]) : tasks[sec][i].pc = "waiting"}

\* URLs the progress file recorded for a source when the run began / now
UrlsIn(file, sec) ==
    IF file.st # "ok" THEN {}
    ELSE IF sec = AajSec THEN file.data ELSE Range(Get(file.data, sec))
Recorded(sec) == UrlsIn(at_start[SiteOf(sec)], sec)
Extracted(sec) == Range(extract(sec))
FetchedOf(sec) == {u \in URLs : <<sec, u>> \in fetched}
\* the crawler of this source is running, or was the last one to run
RunOf(sec) ==
    IF sec = AajSec THEN mainpc = "aaj" \/ (entry = "aaj_tak" /\ mainpc = "done")
    ELSE mainpc \in {"hindu", "done"} /\ entry # "aaj_tak"
Logged(sec, target) ==
    \E e \in {"fetch_error", "empty_response"} :
        BagIn(LogLine(target, e), log_file[SiteOf(sec)])
InFlightPcs == {"fetching", "sleeping"} \cup SyncPcs

\* C1: the crawler.arun calls active at the same time for one source never
\* exceed the source's concurrency limit.
C1_BoundedConcurrency == \A sec \in AllSecs : ActiveCalls(sec) <= Limit(sec)

\* C1 happens: a limit of 2 is used up while a third task waits for a permit.
C1_LimitReached ==
    \E sec \in AllSecs :
        Limit(sec) = 2 /\ ActiveCalls(sec) = 2 /\ Waiting(sec) # {}

\* C2: a run that finds every extracted URL of a source recorded in the
\* progress file starts no page fetch for that source.
C2_IdempotentRerun ==
    \A sec \in AllSecs :
        (RunOf(sec) /\ Extracted(sec) \subseteq Recorded(sec)) => FetchedOf(sec) = {}

\* C2 happens: the second of two runs ends with both URLs already recorded.
C2_SecondRunDone ==
    /\ entry = "aaj_tak" /\ runs = 2 /\ mainpc = "done"
    /\ Extracted(AajSec) = {"u1", "u2"} /\ Recorded(AajSec) = {"u1", "u2"}
    /\ FetchedOf(AajSec) = {}

\* C3: a run never fetches a URL that the progress file recorded when the run
\* began, and when the source's orchestrator returns it has fetched exactly
\* the extracted URLs that were not recorded.
C3_ResumeSkipsRecorded ==
    \A sec \in AllSecs :
        /\ FetchedOf(sec) \cap Recorded(sec) = {}
        /\ (RunOf(sec) /\ orch[sec].pc = "returned")
              => FetchedOf(sec) = Extracted(sec) \ Recorded(sec)

\* C3 happens: the restart after a kill (nothing ever failed, yet only u1 was
\* recorded) has fetched u2 alone.
C3_RestartDone ==
    /\ entry = "aaj_tak" /\ runs = 2 /\ orch[AajSec].pc = "returned"
    /\ log_file["aaj_tak"] = EmptyBag
    /\ Extracted(AajSec) = {"u1", "u2"} /\ Recorded(AajSec) = {"u1"}
    /\ FetchedOf(AajSec) = {"u2"}

\* C4: the progress file is never a cut-off document, and every step that
\* changes it (a crash included) leaves the whole new structure in it.
C4_AtomicPersistence ==
    /\ [](\A site \in Sites : progress_file[site].st # "partial")
    /\ [][\A site \in Sites :
             progress_file'[site] # progress_file[site] =>
                progress_file'[site] =
                    Ok(IF site = "aaj_tak" THEN done_set ELSE progress)]_vars

\* C4 happens: the process was killed while the temp file was half written
\* and the progress file still holds the previous document.
C4_KilledInsideWrite ==
    \E site \in Sites :
        /\ mainpc = "crashed"
        /\ tmp_file[site] = Partial
        /\ progress_file[site].st = "ok"

\* C5: with max_retries = n >= 1, retry_async returns only after k < n
\* failures, having called k + 1 times, with the result of the last call; it
\* raises only after exactly n calls that all failed, with the n-th error.
C5_RetryCalls ==
    rt.max_retries >= 1 =>
        /\ rt.pc = "returned" =>
              /\ rt.fails < rt.max_retries
              /\ rt.calls = rt.fails + 1
              /\ rt.outcome = "result" /\ rt.value = rt.fails + 1
        /\ rt.pc = "raised" =>
              /\ rt.fails >= rt.max_retries
              /\ rt.calls = rt.max_retries
              /\ rt.outcome = "error" /\ rt.value = rt.max_retries
        /\ rt.calls <= rt.max_retries

\* C5 happens: two failures, then success on the third of three attempts.
C5_ThirdAttemptSucceeds ==
    /\ rt.pc = "returned" /\ rt.max_retries = 3 /\ rt.fails = 2 /\ rt.calls = 3

\* C6: the i-th sleep of retry_async lasts base_backoff * 2^(i-1); there is
\* one sleep after every failed call but the last one.
C6_BackoffSequence ==
    /\ \A i \in 1..Len(rt.sleeps) : rt.sleeps[i] = rt.base_backoff * 2^(i - 1)
    /\ Len(rt.sleeps) = IF rt.pc \in {"returned", "raised"} THEN rt.calls - 1
                        ELSE rt.calls

\* C6 happens: three failed calls of four allowed gave the delays 2, 4, 8 and
\* the last failure raised without a sleep.
C6_FourAttempts ==
    /\ rt.pc = "raised" /\ rt.max_retries = 4 /\ rt.base_backoff = 2
    /\ rt.sleeps = <<2, 4, 8>>

\* C7: a scrape task's permanent failure aborts nothing: the source's
\* orchestrator returns only when every sibling has succeeded, failed or
\* was skipped as already done, and main does not raise.
C7_FailureContained ==
    \A sec \in AllSecs :
        /\ orch[sec].pc = "returned" =>
              \A i \in 1..Len(tasks[sec]) :
                  /\ tasks[sec][i].pc \in TerminalPcs
                  /\ tasks[sec][i].pc = "skipped" => InDone(sec, tasks[sec][i].url)
        /\ (\E i \in 1..Len(tasks[sec]) : tasks[sec][i].pc = "failed")
              => mainpc # "raised" /\ orch[sec].pc \in {"gather", "returned"}

\* C7 happens: the first task failed for good, a later sibling still
\* completed, and the orchestrator returned.
C7_SiblingCompleted ==
    \E sec \in AllSecs :
        /\ orch[sec].pc = "returned" /\ Len(tasks[sec]) >= 2
        /\ tasks[sec][1].pc = "failed"
        /\ \E j \in 2..Len(tasks[sec]) :
              tasks[sec][j].pc = "done" /\ tasks[sec][j].url # tasks[sec][1].url

\* C8: when the fetch of a sitemap or feed gives up, a failure record for it
\* is in the log and the program goes on with the other sources.
C8_DocFailureIsolated ==
    \A sec \in AllSecs :
        orch[sec].pc \in {"raised", "failed"} =>
            Logged(sec, sec) /\ mainpc # "raised"

\* C9: a URL whose scrape task failed for good has a failure record and is
\* neither in the in-memory ProgressSet nor in the progress file.
C9_FailedNotRecorded ==
    \A sec \in AllSecs : \A i \in 1..Len(tasks[sec]) :
        tasks[sec][i].pc = "failed" =>
            /\ Logged(sec, tasks[sec][i].url)
            /\ ~InDone(sec, tasks[sec][i].url)
            /\ tasks[sec][i].url \notin UrlsIn(progress_file[SiteOf(sec)], sec)

\* C10: no URL is in flight in two scrape tasks of one source at once.
C10_NoDoubleInFlight ==
    \A sec \in AllSecs : \A i, j \in 1..Len(tasks[sec]) :
        (i # j /\ tasks[sec][i].pc \in InFlightPcs /\ tasks[sec][j].pc \in InFlightPcs)
            => tasks[sec][i].url # tasks[sec][j].url

\* pcs of a scrape task whose content file and metadata file are both written
RecordPcs == {"wrote_meta", "tmp_open", "tmp_written", "done"}

\* C11: within one run no two scrape tasks of a source produce the content
\* and metadata files of the same URL.
C11_RecordOncePerRun ==
    \A sec \in AllSecs : \A i, j \in 1..Len(tasks[sec]) :
        (i # j /\ tasks[sec][i].pc \in RecordPcs /\ tasks[sec][j].pc \in RecordPcs)
            => tasks[sec][i].url # tasks[sec][j].url

\* pages of the run in progress whose content and metadata files are written
\* and that the given progress file does not hold
NotInFile(file) ==
    {<<sec, u>> \in AllSecs \X URLs :
        /\ \E i \in 1..Len(tasks[sec]) :
              tasks[sec][i].url = u /\ tasks[sec][i].pc \in RecordPcs
        /\ u \notin UrlsIn(file[SiteOf(sec)], sec)}

\* C12: when the process is killed, the progress file it leaves holds every
\* URL whose save_progress call had returned, and lacks at most one page of
\* the run whose content and metadata files were fully written.
C12_CrashDurability ==
    [][(mainpc # "crashed" /\ mainpc' = "crashed") =>
          /\ \A sec \in AllSecs : \A i \in 1..Len(tasks[sec]) :
                tasks[sec][i].pc = "done" =>
                    tasks[sec][i].url \in UrlsIn(progress_file'[SiteOf(sec)], sec)
          /\ Cardinality(NotInFile(progress_file')) <= 1]_vars

\* C12 happens: the process was killed after u1 was saved and while u2, with
\* both files on disk, was not yet in the progress file.
C12_KilledBeforeSave ==
    /\ mainpc = "crashed"
    /\ progress_file["aaj_tak"] = Ok({"u1"})
    /\ \E f \in md_files, g \in meta_files :
          f.by = <<AajSec, "u2">> /\ g.content.url = "u2" /\ g.path = f.path

\* C13: no step makes the URL set the progress file holds for a source
\* smaller: each save, in the first run and after every restart, leaves a
\* superset, for the saving task's section and for every other section.
C13_ProgressNeverShrinks ==
    [][\A sec \in AllSecs :
          UrlsIn(progress_file[SiteOf(sec)], sec)
              \subseteq UrlsIn(progress_file'[SiteOf(sec)], sec)]_vars

\* C13 happens: in a second run a save triggered by a task of section world
\* has left the list of section india, recorded in the first run, in the file.
C13_OtherSectionKept ==
    /\ runs = 2 /\ Recorded("india") = {"u1"} /\ Recorded("world") = {}
    /\ UrlsIn(progress_file["the_hindu"], "india") = {"u1"}
    /\ UrlsIn(progress_file["the_hindu"], "world") = {"u1"}

\* the in-memory ProgressSet is as load_progress returned it: the source
\* documents are not fetched yet, no task exists
JustLoaded(site) ==
    IF site = "aaj_tak"
    THEN mainpc = "aaj" /\ orch[AajSec].pc \in {"fetching", "sleeping"}
    ELSE mainpc = "hindu" /\ \A s \in HinduSecs : orch[s].pc \in {"fetching", "sleeping"}

\* C14: started on a progress file that is missing, cut off or of another
\* shape, a crawler begins with the empty ProgressSet and fetches every URL
\* it extracts.
C14_LoadTolerant ==
    \A site \in Sites :
        at_start[site].st # "ok" =>
            /\ JustLoaded(site) =>
                  IF site = "aaj_tak" THEN done_set = {} ELSE progress = EmptyDict
            /\ \A sec \in AllSecs :
                  (SiteOf(sec) = site /\ RunOf(sec) /\ orch[sec].pc = "returned")
                      => FetchedOf(sec) = Extracted(sec)

\* C15: an empty response body counts as a failed attempt: the fetch of a
\* sitemap or feed gives up only when its attempts are used up, and no page
\* whose body came back empty is written and marked completed.
C15_EmptyBodyRetried ==
    /\ [](\A sec \in AllSecs : \A i \in 1..Len(tasks[sec]) :
             tasks[sec][i].pc = "done" => md_of(arun_result(tasks[sec][i].url)) # "")
    /\ [][\A sec \in AllSecs :
             (orch[sec].pc = "fetching" /\ orch'[sec].pc \in {"raised", "failed"})
                 => orch[sec].attempt + 1 >= cfg[SiteOf(sec)].max_retries]_vars

\* C16: whichever strategy produces it, the list an extractor returns holds
\* no URL twice and keeps the URLs in the order of their first occurrence.
C16_ResultDeduplicated ==
    ex.pc = "returned" => ex.result = Dedupe(ex.collected)

\* what strategy k of an extractor yields on its own for a document
OwnResult(fn, doc, k) ==
    IF fn = "sitemap"
    THEN IF k = 4 THEN Dedupe(PlainTexts(doc.entries))
         ELSE IF ~doc.wf THEN <<>>
         ELSE IF k = 1 THEN SelectTexts(doc.entries, {"ns_url_loc"})
         ELSE IF k = 2 THEN SelectTexts(doc.entries, {"url_loc"})
         ELSE SelectTexts(doc.entries, LocKinds)
    ELSE IF k = 2 THEN Dedupe(HinduTexts(doc.entries, AllKinds))
         ELSE IF ~doc.wf THEN <<>>
         ELSE Dedupe(HinduTexts(doc.entries, {"item_link"}))
LastStrategy(fn) == IF fn = "sitemap" THEN 4 ELSE 2
\* the first strategy that yields a non-empty list, the last one when none does
Winner(fn, doc) ==
    LET good == {k \in 1..LastStrategy(fn) : OwnResult(fn, doc, k) # <<>>}
    IN IF good = {} THEN LastStrategy(fn)
       ELSE CHOOSE k \in good : \A j \in good : k <= j

\* C17: the strategies run in their fixed order, and the list returned is
\* what the first strategy with a non-empty list yields on its own, that
\* strategy being the last one run.
C17_FirstStrategyWins ==
    /\ \A i \in 1..Len(ex.ran) : ex.ran[i] = i
    /\ (ex.pc = "returned" /\ ex.doc.long) =>
          LET k == Winner(ex.fn, ex.doc)
          IN ex.result = OwnResult(ex.fn, ex.doc, k) /\ Len(ex.ran) = k

\* C17 happens: strategy 1 found a url element without text, strategy 2 found
\* none, strategy 3 returned its own list, and the regex, not run, would
\* have given another.
C17_ThirdStrategyWon ==
    /\ ex.fn = "sitemap" /\ ex.pc = "returned" /\ ex.ran = <<1, 2, 3>>
    /\ EntriesOf({"ns_url_loc"}) # <<>>
    /\ ex.result = <<"u1">>
    /\ OwnResult("sitemap", ex.doc, 4) = <<"u2">>

\* C18: an extractor never raises; while it has not returned it has a step to
\* take; for an input shorter than 20 characters it returns the empty list
\* without running a strategy.
C18_ExtractorTotal ==
    /\ ex.pc # "raised"
    /\ ex.pc \in {"start", "s1", "s2", "s3", "s4"} => ENABLED ExtractNext
    /\ (ex.pc = "returned" /\ ~ex.doc.long) => (ex.result = <<>> /\ ex.ran = <<>>)

\* C18 happens: a document that does not parse went through the three
\* parsing strategies and the regex returned a URL from it.
C18_MalformedReturned ==
    /\ ex.fn = "sitemap" /\ ex.pc = "returned" /\ ~ex.doc.wf /\ ex.doc.long
    /\ ex.ran = <<1, 2, 3, 4>> /\ ex.result = <<"u1">>

\* C19: a source whose fetched document yields no URL is finished without a
\* scrape task, a page fetch or an error, and the steps its orchestrator
\* takes from the fetch to its return leave the failure log, the ProgressSet
\* and every file as they were.
C19_NothingToCrawl ==
    /\ [](\A sec \in AllSecs :
             (Extracted(sec) = {} /\ orch[sec].pc \in {"gather", "returned"})
                 => (tasks[sec] = <<>> /\ FetchedOf(sec) = {} /\ mainpc # "raised"))
    /\ [][\A sec \in AllSecs :
             (/\ Extracted(sec) = {}
              /\ orch[sec].pc \in {"fetching", "gather"}
              /\ orch'[sec].pc \in {"gather", "returned"}
              /\ orch'[sec].pc # orch[sec].pc)
                 => UNCHANGED <<log_file, done_set, progress, progress_file, tmp_file,
                                md_files, meta_files, fetched>>]_vars

\* C19 happens: the feed of section world gave no URL and its orchestrator
\* returned, while section india of the same run recorded its page.
C19_EmptyFeedReturned ==
    /\ mainpc = "done" /\ orch["world"].pc = "returned" /\ Extracted("world") = {}
    /\ UrlsIn(progress_file["the_hindu"], "india") # {}
    /\ UrlsIn(progress_file["the_hindu"], "world") = {}

UnfinishedPcs == {"new", "waiting", "fetching", "sleeping"} \cup SyncPcs

\* C21: when a source's orchestrator has returned, and when the run has
\* reported DONE, none of the scrape tasks it created is still pending,
\* waiting for a permit, fetching, sleeping or writing.
C21_ReturnsAfterAllTasks ==
    \A sec \in AllSecs : \A i \in 1..Len(tasks[sec]) :
        (orch[sec].pc = "returned" \/ mainpc = "done")
            => tasks[sec][i].pc \notin UnfinishedPcs

\* C21 happens: the run reported DONE with three tasks created for one
\* source, one of them failed for good and one completed.
C21_DoneWithAllFinished ==
    /\ mainpc = "done"
    /\ \E sec \in AllSecs :
          /\ Len(tasks[sec]) = 3
          /\ \E i, j \in 1..3 : tasks[sec][i].pc = "failed" /\ tasks[sec][j].pc = "done"

\* ------------------------------------------------------------- fair runs
\* The program left to run: no kill of the process.
RunNext ==
    \/ StartAaj
    \/ StartHindu
    \/ FinishAaj
    \/ FinishHindu
    \/ \E sec \in AllSecs :
          \/ DocFetchFail(sec)
          \/ DocFetchWake(sec)
          \/ DocFetchEmpty(sec)
          \/ DocFetchOk(sec)
          \/ GatherReturn(sec)
    \/ \E sec \in AllSecs : \E i \in 1..MaxTasks :
          \/ TaskStart(sec, i)
          \/ TaskAcquire(sec, i)
          \/ TaskFetchFail(sec, i)
          \/ TaskWake(sec, i)
          \/ TaskFetchOk(sec, i)
          \/ TaskWriteMeta(sec, i)
          \/ save_progress_open(sec, i)
          \/ save_progress_dump(sec, i)
          \/ save_progress_replace(sec, i)

\* the steps of main, of a source's orchestrator and of one scrape task
MainStep == FinishAaj \/ FinishHindu \/ (entry = "main_crawler" /\ StartHindu)
OrchStep(sec) ==
    \/ DocFetchFail(sec) \/ DocFetchWake(sec) \/ DocFetchEmpty(sec)
    \/ DocFetchOk(sec) \/ GatherReturn(sec)
TaskStep(sec, i) ==
    \/ TaskStart(sec, i) \/ TaskAcquire(sec, i) \/ TaskFetchFail(sec, i)
    \/ TaskWake(sec, i) \/ TaskFetchOk(sec, i) \/ TaskWriteMeta(sec, i)
    \/ save_progress_open(sec, i) \/ save_progress_dump(sec, i)
    \/ save_progress_replace(sec, i)

\* Every crawler.arun call returns or raises, every sleep ends, and the event
\* loop runs each coroutine that stays ready: main, each orchestrator and each
\* scrape task takes its next step if it can take it from some point on.
\* Starting the program again is nobody's duty.
RunFairness ==
    /\ WF_vars(MainStep)
    /\ \A sec \in AllSecs :
          /\ WF_vars(OrchStep(sec))
          /\ \A i \in 1..MaxTasks : WF_vars(TaskStep(sec, i))

SpecFair == Init /\ [][RunNext]_vars /\ RunFairness

\* the program is inside a run / has come out of it
Running == mainpc \in {"aaj", "hindu"}
Ended == mainpc \in {"done", "raised"}
\* task i of a source has been created and has not finished
Unfinished(sec, i) == IsTask(sec, i) /\ tasks[sec][i].pc \in UnfinishedPcs
\* the URL is in the source's progress file, or a failure of it is logged
Settled(sec, url) ==
    \/ url \in UrlsIn(progress_file[SiteOf(sec)], sec)
    \/ BagIn(LogLine(url, "fetch_error"), log_file[SiteOf(sec)])

\* every task created has finished, with its URL in the progress file or a
\* failure of it in the log
AllSettled ==
    \A sec \in AllSecs : \A i \in 1..MaxTasks :
        IsTask(sec, i) => /\ ~Unfinished(sec, i)
                          /\ Settled(sec, tasks[sec][i].url)

\* C22: under fair scheduling, whatever the program is doing it comes again to
\* a state where no run is going on and every task created has finished with
\* its URL recorded as completed or logged as failed: every run ends, and no
\* task stays pending, fetching, sleeping or waiting for a permit.
C22_RunsTerminate == []<>(~Running /\ AllSettled)

\* C22 happens: with one permit, a task waits while the holder of the permit
\* sleeps between attempts and a third task has already failed for good.
C22_WaitsBehindSleeper ==
    \E sec \in AllSecs : \E i, j, k \in 1..MaxTasks :
        /\ Limit(sec) = 1
        /\ IsTask(sec, i) /\ tasks[sec][i].pc = "failed"
        /\ IsTask(sec, j) /\ tasks[sec][j].pc = "sleeping"
        /\ IsTask(sec, k) /\ tasks[sec][k].pc = "waiting"

\* the tasks of a source that hold the URL and are at one of the pcs
UrlTasks(sec, url, pcs) ==
    {i \in 1..Len(tasks[sec]) : tasks[sec][i].url = url /\ tasks[sec][i].pc \in pcs}
\* the state of a URL in the current run
InFlight(sec, url) == UrlTasks(sec, url, InFlightPcs) # {}
Completed(sec, url) == UrlTasks(sec, url, {"done"}) # {}
Failed(sec, url) == UrlTasks(sec, url, {"failed"}) # {}
\* a step inside one run of the source: its tasks stay the same tasks
SameTasks(sec) == Len(tasks[sec]) > 0 /\ Len(tasks'[sec]) = Len(tasks[sec])

\* C23: within a run a URL goes from pending to in flight and from there to
\* completed or to failed; completed and failed are final (a completed URL is
\* never in flight or failed afterwards, a failed URL is never in flight or
\* completed afterwards), and the URLs the run added to the progress file are
\* exactly the completed ones.
C23_UrlStateMachine ==
    /\ [](\A sec \in AllSecs : \A u \in URLs :
            Len(tasks[sec]) > 0 =>
                (u \in UrlsIn(progress_file[SiteOf(sec)], sec) \ Recorded(sec)
                    <=> Completed(sec, u)))
    /\ [][\A sec \in AllSecs : \A u \in URLs :
            SameTasks(sec) =>
                /\ (~InFlight(sec, u) /\ ~Completed(sec, u) /\ ~Failed(sec, u))
                      => (~Completed(sec, u)' /\ ~Failed(sec, u)')
                /\ Completed(sec, u)
                      => (Completed(sec, u)' /\ ~InFlight(sec, u)' /\ ~Failed(sec, u)')
                /\ Failed(sec, u)
                      => (Failed(sec, u)' /\ ~InFlight(sec, u)' /\ ~Completed(sec, u)')]_vars

\* C24: no scrape task starts its page fetch (from pending, or from waiting
\* for a permit) for a URL that is in the in-memory progress set at that
\* moment.
C24_GuardAtAdmission ==
    [][\A sec \in AllSecs : \A i \in 1..MaxTasks :
          (/\ IsTask(sec, i) /\ SameTasks(sec)
           /\ tasks[sec][i].pc \in {"new", "waiting"}
           /\ tasks'[sec][i].pc = "fetching")
              => ~InDone(sec, tasks[sec][i].url)]_vars

\* the sections of a site, its permit pool (free permits, or NoSem before the
\* first task created it) and the tasks inside `async with`
SecsOf(site) == {sec \in AllSecs : SiteOf(sec) = site}
Pool(site) == IF site = "aaj_tak" THEN SEM ELSE PAGE_SEM
Holders(site) ==
    {<<sec, i>> \in SecsOf(site) \X (1..MaxTasks) :
        IsTask(sec, i) /\ tasks[sec][i].pc \in InFlightPcs}
\* the run of the site's crawler is over
RunEnded(site) ==
    /\ mainpc \in {"done", "raised"} \/ (site = "aaj_tak" /\ mainpc = "hindu")
    /\ \A sec \in SecsOf(site) : orch[sec].pc \in {"returned", "failed", "raised"}

\* C25: for each crawler, once its permit pool exists the tasks holding a
\* permit plus the free permits make up the configured limit, over all its
\* sections; before the pool exists no task holds a permit or fetches; and
\* when the run is over every permit is free.
C25_PermitAccounting ==
    \A site \in Sites :
        /\ Pool(site) = NoSem => Holders(site) = {}
        /\ Pool(site) # NoSem =>
              /\ Pool(site) >= 0
              /\ Cardinality(Holders(site)) + Pool(site) = cfg[site].concurrency
        /\ RunEnded(site) => Pool(site) \in {NoSem, cfg[site].concurrency}

\* C25 happens: a The Hindu run with two permits is over, tasks of both
\* sections completed pages, and both permits are free again.
C25_SharedPoolFreeAtEnd ==
    /\ mainpc = "done" /\ cfg["the_hindu"].concurrency = 2 /\ PAGE_SEM = 2
    /\ \A sec \in HinduSecs : \E i \in 1..Len(tasks[sec]) : tasks[sec][i].pc = "done"

\* the content file and the metadata file of a page are on disk
HasFiles(sec, url) ==
    /\ \E f \in md_files : f.by = <<sec, url>> /\ f.path = placement(sec, url)
    /\ \E f \in meta_files : f.by = <<sec, url>> /\ f.path = placement(sec, url)

\* C26: every URL in a progress file, in the temp file being written, or in
\* the in-memory progress set has its content file and its metadata file on
\* disk, in every state, also after a kill of the process.
C26_WriteBeforeProgress ==
    \A sec \in AllSecs : \A u \in URLs :
        (\/ u \in UrlsIn(progress_file[SiteOf(sec)], sec)
         \/ u \in UrlsIn(tmp_file[SiteOf(sec)], sec)
         \/ InDone(sec, u))
            => HasFiles(sec, u)

\* C26 happens: the process was killed with one page recorded in the progress
\* file and the content file of a second page written without its metadata.
C26_KilledBetweenWrites ==
    /\ mainpc = "crashed"
    /\ \E sec \in AllSecs : \E u, v \in URLs :
          /\ u \in UrlsIn(progress_file[SiteOf(sec)], sec)
          /\ v \notin UrlsIn(progress_file[SiteOf(sec)], sec)
          /\ \E f \in md_files : f.by = <<sec, v>>
          /\ ~\E f \in meta_files : f.by = <<sec, v>>

\* the in-memory progress set of a source
InMemory(sec) == IF sec = AajSec THEN done_set ELSE Range(Get(progress, sec))
\* the URLs of the source's tasks that completed in this run
CompletedInRun(sec) == {u \in URLs : Completed(sec, u)}

\* C27: while a source's crawler runs, whenever no task is in the middle of
\* its writes (another task can run) the progress file holds exactly the
\* in-memory progress set; and when the orchestrator has returned the file
\* holds the set loaded at the start plus every URL completed in the run.
C27_NoLostUpdates ==
    \A sec \in AllSecs :
        RunOf(sec) =>
            /\ ~SyncBusy => UrlsIn(progress_file[SiteOf(sec)], sec) = InMemory(sec)
            /\ orch[sec].pc = "returned" =>
                  UrlsIn(progress_file[SiteOf(sec)], sec)
                      = Recorded(sec) \cup CompletedInRun(sec)

\* C27 happens: with two permits two tasks of one source completed different
\* pages in one run, and the orchestrator returned with both in the file.
C27_TwoSavedInOneRun ==
    \E sec \in AllSecs :
        /\ Limit(sec) = 2 /\ orch[sec].pc = "returned" /\ RunOf(sec)
        /\ Recorded(sec) = {}
        /\ CompletedInRun(sec) = URLs
        /\ UrlsIn(progress_file[SiteOf(sec)], sec) = URLs

\* the tasks of a site sleeping between two attempts
Sleepers(site) ==
    {<<sec, i>> \in SecsOf(site) \X (1..MaxTasks) :
        IsTask(sec, i) /\ tasks[sec][i].pc = "sleeping"}

\* C28: a task sleeping between attempts still holds its permit: sleeping
\* tasks together with the fetching and writing ones never exceed the limit,
\* the free permits never exceed the limit minus the sleeping tasks, and
\* going to sleep or waking up leaves the number of free permits unchanged.
C28_PermitHeldInBackoff ==
    /\ [](\A site \in Sites :
             /\ Cardinality(Holders(site)) <= cfg[site].concurrency
             /\ Pool(site) # NoSem =>
                   Pool(site) <= cfg[site].concurrency - Cardinality(Sleepers(site)))
    /\ [][\A sec \in AllSecs : \A i \in 1..MaxTasks :
             (/\ IsTask(sec, i) /\ SameTasks(sec)
              /\ "sleeping" \in {tasks[sec][i].pc, tasks'[sec][i].pc}
              /\ tasks'[sec][i].pc # tasks[sec][i].pc)
                 => Pool(SiteOf(sec))' = Pool(SiteOf(sec))]_vars

\* C28 happens: with one permit the holder sleeps between two attempts, no
\* permit is free, and another task waits.
C28_SleeperBlocksWaiter ==
    \E sec \in AllSecs : \E i, j \in 1..MaxTasks :
        /\ Limit(sec) = 1 /\ Sem(sec) = 0
        /\ IsTask(sec, i) /\ tasks[sec][i].pc = "sleeping" /\ tasks[sec][i].attempt = 1
        /\ IsTask(sec, j) /\ tasks[sec][j].pc = "waiting"
        /\ ~ENABLED TaskAcquire(sec, j)

\* C29: retry_async has called the operation at least once when it returns or
\* raises; with max_retries <= 1 (0 and negative values too) it calls the
\* operation exactly once, never sleeps, returns that call's result if the
\* call returned and raises that call's error if it failed.
C29_AtLeastOneCall ==
    /\ rt.pc \in {"returned", "raised"} => rt.calls >= 1
    /\ rt.max_retries <= 1 =>
          /\ rt.calls <= 1 /\ rt.sleeps = <<>> /\ rt.pc # "sleeping"
          /\ rt.pc = "returned" =>
                rt.calls = 1 /\ rt.fails = 0 /\ rt.outcome = "result" /\ rt.value = 1
          /\ rt.pc = "raised" =>
                rt.calls = 1 /\ rt.fails >= 1 /\ rt.outcome = "error" /\ rt.value = 1
          /\ (rt.calls = 1 /\ rt.fails >= 1) => rt.pc = "raised"

\* C29 happens: with max_retries = -1 the single call failed and its error
\* was raised without a sleep.
C29_NegativeBudgetRaised ==
    /\ rt.max_retries = -1 /\ rt.pc = "raised" /\ rt.calls = 1 /\ rt.sleeps = <<>>
    /\ rt.fails >= 2

\* the tasks of a site that fail for good in a step, and its sections whose
\* document fetch fails for good in the step
NewlyFailed(site) ==
    {<<sec, i>> \in SecsOf(site) \X (1..MaxTasks) :
        /\ IsTask(sec, i) /\ SameTasks(sec)
        /\ tasks[sec][i].pc # "failed" /\ tasks'[sec][i].pc = "failed"}
DocFailed(site) ==
    {sec \in SecsOf(site) : orch[sec].pc # "failed" /\ orch'[sec].pc = "failed"}

\* C30: in every step the failure log of a site keeps all its records and
\* gains exactly one record for every task that fails for good in the step,
\* a record for that task's URL (and one for a feed whose fetch fails); no
\* other step, the return of the orchestrator's gather, a completed or a
\* skipped task among them, adds a record.
C30_OneFailureRecord ==
    [][\A site \in Sites :
          /\ log_file[site] \sqsubseteq log_file'[site]
          /\ BagCardinality(log_file'[site])
                = BagCardinality(log_file[site]) + Cardinality(NewlyFailed(site))
                    + Cardinality(DocFailed(site))
          /\ \A t \in NewlyFailed(site) :
                LET line == LogLine(tasks[t[1]][t[2]].url, "fetch_error")
                IN CopiesIn(line, log_file'[site]) = CopiesIn(line, log_file[site]) + 1]_vars

\* C30 happens: the orchestrator returned with one task failed for good, its
\* URL logged once, and another task completed with nothing logged for its URL.
C30_LoggedOnce ==
    \E sec \in AllSecs : \E i, j \in 1..MaxTasks :
        /\ orch[sec].pc = "returned"
        /\ IsTask(sec, i) /\ tasks[sec][i].pc = "failed"
        /\ BagCardinality(log_file[SiteOf(sec)]) = 1
        /\ CopiesIn(LogLine(tasks[sec][i].url, "fetch_error"), log_file[SiteOf(sec)]) = 1
        /\ IsTask(sec, j) /\ tasks[sec][j].pc = "done"
        /\ ~Logged(sec, tasks[sec][j].url)

====
